---- MODULE Spec2Model ----
(***************************************************************************)
(* Model of compare_ocr_models.py: main() runs run_ollama_ocr_integrated   *)
(* once per model (one loop iteration per sampled image) and then          *)
(* generate_comparison_report.  File names, model names and texts are      *)
(* sequences of one-character strings, so that Path.stem / Path.suffix,    *)
(* str.lower, str.replace, str.strip and the text-mode newline handling    *)
(* are computed as the interpreter computes them.                          *)
(***************************************************************************)
EXTENDS Integers, Sequences, FiniteSets, TLC

VARIABLES
    models,        \* the models list handed to the runners and to the report
    listing,       \* Path(image_dir).iterdir(): directory entries in enumeration order
    num_sample_images,
    initial_fs,    \* the output tree when main() starts (history)
    fs,            \* output tree: <<directory name, file name>> -> file content
    dirs,          \* existing model output directories
    pc,            \* "main" | "loop" | "done"
    mi,            \* index in models of the current / next runner call
    image_files,   \* the running call's truncated sample list
    idx,           \* position of the for loop in image_files
    success_all,   \* the running call's flag
    log,           \* the running call's attempts so far (history)
    calls,         \* finished runner calls (history)
    sample_images, \* the report generator's own sample list (stems)
    report         \* the report file: sequence of written items, <<>> before it is opened

vars == <<models, listing, num_sample_images, initial_fs, fs, dirs, pc, mi,
          image_files, idx, success_all, log, calls, sample_images, report>>

----------------------------------------------------------------------------
(* Bounds of the model *)

\* largest sample count drawn
MaxSampleCount == 3
\* most inference attempts of one run of main(): Len(models) * Len(sample list)
MaxAttempts == 4
\* most result files whose read raises inside the report generator
MaxReadErrors == 1

----------------------------------------------------------------------------
(* Characters and texts *)

SP == " "
CR == "<CR>"
LF == "<LF>"
\* a lone surrogate, which json decodes and utf-8 refuses to encode
SUR == "<D800>"

Max(a, b) == IF a >= b THEN a ELSE b
Min(a, b) == IF a <= b THEN a ELSE b

IsSpace(c) == c \in {SP, CR, LF}

RECURSIVE LStrip(_)
LStrip(t) == IF t = <<>> THEN <<>>
             ELSE IF IsSpace(Head(t)) THEN LStrip(Tail(t)) ELSE t

RECURSIVE RStrip(_)
RStrip(t) == IF t = <<>> THEN <<>>
             ELSE IF IsSpace(t[Len(t)]) THEN RStrip(SubSeq(t, 1, Len(t) - 1)) ELSE t

\* str.strip()
Strip(t) == RStrip(LStrip(t))

\* os.linesep (POSIX)
os_linesep == <<LF>>

\* text-mode write with newline=None: every "\n" becomes os.linesep
RECURSIVE TranslateOnWrite(_)
TranslateOnWrite(t) ==
    IF t = <<>> THEN <<>>
    ELSE (IF Head(t) = LF THEN os_linesep ELSE <<Head(t)>>) \o TranslateOnWrite(Tail(t))

\* text-mode read with newline=None: "\r\n" and "\r" become "\n"
RECURSIVE UniversalNewlines(_)
UniversalNewlines(t) ==
    IF t = <<>> THEN <<>>
    ELSE IF Head(t) = CR
         THEN IF Len(t) >= 2 /\ t[2] = LF
              THEN <<LF>> \o UniversalNewlines(SubSeq(t, 3, Len(t)))
              ELSE <<LF>> \o UniversalNewlines(Tail(t))
         ELSE <<Head(t)>> \o UniversalNewlines(Tail(t))

\* utf-8 encodes every str except one holding a surrogate
Encodable(t) == \A i \in DOMAIN t : t[i] # SUR

\* str.replace(old, new) for one-character old and new
RECURSIVE Replace(_, _, _)
Replace(s, old, new) ==
    IF s = <<>> THEN <<>>
    ELSE <<IF Head(s) = old THEN new ELSE Head(s)>> \o Replace(Tail(s), old, new)

\* str.lower() on the characters that occur in the file names of the model
LowerChar(c) ==
    CASE c = "J" -> "j" [] c = "P" -> "p" [] c = "E" -> "e" [] c = "G" -> "g"
      [] c = "N" -> "n" [] OTHER -> c

RECURSIVE Lower(_)
Lower(s) == IF s = <<>> THEN <<>> ELSE <<LowerChar(Head(s))>> \o Lower(Tail(s))

\* list[:k]
PySlice(s, k) ==
    IF k >= 0 THEN SubSeq(s, 1, Min(k, Len(s)))
    ELSE SubSeq(s, 1, Max(0, Len(s) + k))

----------------------------------------------------------------------------
(* pathlib *)

\* name.rfind('.'), 1-based, 0 when there is no dot
RFindDot(name) ==
    LET D == {i \in DOMAIN name : name[i] = "."}
    IN  IF D = {} THEN 0 ELSE CHOOSE i \in D : \A j \in D : j <= i

\* PurePath.suffix
Suffix(name) ==
    LET i == RFindDot(name)
    IN  IF 1 < i /\ i < Len(name) THEN SubSeq(name, i, Len(name)) ELSE <<>>

\* PurePath.stem
Stem(name) ==
    LET i == RFindDot(name)
    IN  IF 1 < i /\ i < Len(name) THEN SubSeq(name, 1, i - 1) ELSE name

IMAGE_SUFFIXES == { <<".", "j", "p", "e", "g">>, <<".", "j", "p", "g">>, <<".", "p", "n", "g">> }

\* variant: only the '/' is replaced
model_output_dir_name_SlashOnly(model_name) == Replace(model_name, "/", "_")

\* model_name.replace('/', '_').replace(':', '_')
model_output_dir_name(model_name) == Replace(Replace(model_name, "/", "_"), ":", "_")

\* f"{stem}.txt"
TxtName(stem) == stem \o <<".", "t", "x", "t">>

\* model_output_path / f"{image_path.stem}.txt"
output_filename(model_name, image_path) ==
    <<model_output_dir_name(model_name), TxtName(Stem(image_path.name))>>

\* model_output_path / f"{sample_image_stem}.txt"
ocr_output_file(model_name, sample_image_stem) ==
    <<model_output_dir_name(model_name), TxtName(sample_image_stem)>>

----------------------------------------------------------------------------
(* Inputs: what the image directory holds, which models run, what the      *)
(* inference service answers                                               *)

Range(s) == {s[i] : i \in DOMAIN s}

File(name) == [name |-> name, is_file |-> TRUE]
Directory(name) == [name |-> name, is_file |-> FALSE]

A_JPG  == File(<<"a", ".", "j", "p", "g">>)
A_PNG  == File(<<"a", ".", "p", "n", "g">>)
B_JPEG == File(<<"b", ".", "J", "P", "E", "G">>)
C_PNG  == File(<<"c", ".", "P", "n", "g">>)
D_JPEG == File(<<"d", ".", "j", "p", "e", "g">>)
E_JPG  == File(<<"e", ".", "x", ".", "j", "p", "g">>)
N_TXT  == File(<<"n", ".", "t", "x", "t">>)
DOTPNG == File(<<".", "p", "n", "g">>)
F_DIR  == Directory(<<"f", ".", "p", "n", "g">>)

\* directory contents, in the order iterdir() enumerates them
Listings ==
    { <<>>,
      <<N_TXT, F_DIR, DOTPNG>>,
      <<A_JPG>>,
      <<A_JPG, A_PNG>>,
      <<C_PNG, F_DIR, A_PNG, N_TXT, B_JPEG>>,
      <<A_JPG, B_JPEG, C_PNG, D_JPEG, E_JPG>> }

\* line 16
NUM_SAMPLE_IMAGES == 3

\* the sample counts drawn: main()'s constant among them
SampleCounts == (0..MaxSampleCount) \cup {NUM_SAMPLE_IMAGES}

\* MODELS, lines 7-11, with the names shortened to their separator structure
MODELS == << <<"y", "/", "N", ":", "l">>, <<"M", "/", "P", ":", "0">>, <<"d", ":", "l">> >>

ModelLists ==
    { <<>>,
      << <<"m">> >>,
      << <<"m">>, <<"m">> >>,
      << <<"a", "/", "b">>, <<"a", ":", "b">> >>,
      MODELS }

\* the "response" texts the service may return
ResponseTexts ==
    { <<SP>>,
      <<SP, "x", LF>>,
      <<"x", CR, LF, "y">>,
      <<"x", SUR>> }

\* response.json()
Bodies ==
    {[type |-> "dict", has_response |-> TRUE, response |-> t] : t \in ResponseTexts}
    \cup {[type |-> "dict", has_response |-> FALSE, response |-> <<>>],
          [type |-> "list", has_response |-> FALSE, response |-> <<>>]}

\* result.get("response", "").strip()
ocr_text(result) == Strip(IF result.has_response THEN result.response ELSE <<>>)

\* what an earlier run of main() left behind: every call saved OLD_TEXT
PREVIOUS_IMAGES == <<A_JPG, File(<<"o", ".", "p", "n", "g">>)>>
OLD_TEXT == <<"o">>

EmptyTree == [p \in {} |-> <<>>]

PreviousRun(ms) ==
    [p \in {output_filename(m, f) : m \in Range(ms), f \in Range(PREVIOUS_IMAGES)} |-> OLD_TEXT]

----------------------------------------------------------------------------
(* run_ollama_ocr_integrated *)

\* line 26: the comprehension's filter
RunnerFilter(f) == f.is_file /\ Lower(Suffix(f.name)) \in IMAGE_SUFFIXES

\* line 26
all_image_files(image_dir) == SelectSeq(image_dir, RunnerFilter)

\* variant: the slice takes one element too many
runner_image_files_OffByOne(image_dir, k) == PySlice(all_image_files(image_dir), k + 1)

\* variant: the slice is forgotten
runner_image_files_NoTruncation(image_dir, k) == all_image_files(image_dir)

\* line 28
runner_image_files(image_dir, k) == PySlice(all_image_files(image_dir), k)

\* open(output_filename, "w") creates or truncates the file
OpenForWrite(tree, path) == (path :> <<>>) @@ tree

\* outfile.write(text) and close
WriteText(tree, path, text) == (path :> TranslateOnWrite(text)) @@ tree

Attempt(image_path, outcome, text) == [image |-> image_path, outcome |-> outcome, text |-> text]

\* the loop's next element
NextImage == image_files[idx]

\* the for loop moves on to the next element
Advance == idx' = idx + 1

\* lines 42, 46, 74, 77
MarkFailed == success_all' = FALSE

\* variant: a success sets the flag again
ResetFlag == success_all' = TRUE

\* lines 59-69: the success path leaves the flag alone
KeepFlag == success_all' = success_all

\* variant: `break` in place of `continue`
Break == idx' = Len(image_files) + 1

\* lines 43, 47: `continue`
Continue == idx' = idx + 1

Inputs == <<models, listing, num_sample_images, initial_fs>>

\* lines 18-35: mkdir, sample list, the empty-list return
RunnerEnter ==
    /\ pc = "main"
    /\ mi <= Len(models)
    /\ dirs' = dirs \cup {model_output_dir_name(models[mi])}
    /\ LET files == runner_image_files(listing, num_sample_images)
       IN  IF files = <<>>
           THEN /\ calls' = Append(calls, [model_name |-> models[mi], image_files |-> <<>>,
                                           log |-> <<>>, result |-> FALSE])
                /\ mi' = mi + 1
                /\ UNCHANGED <<pc, image_files, idx, success_all, log>>
           ELSE /\ image_files' = files
                /\ idx' = 1
                /\ success_all' = TRUE
                /\ log' = <<>>
                /\ pc' = "loop"
                /\ UNCHANGED <<calls, mi>>
    /\ UNCHANGED <<Inputs, fs, sample_images, report>>

InLoop == pc = "loop" /\ idx <= Len(image_files)

\* lines 37-47: reading the image raises
ImageReadFails ==
    /\ InLoop
    /\ MarkFailed
    /\ Continue
    /\ log' = Append(log, Attempt(NextImage, "read_failed", <<>>))
    /\ UNCHANGED <<Inputs, fs, dirs, pc, mi, image_files, calls, sample_images, report>>

\* lines 60-61, 70-74: post(), raise_for_status() or json() raises a RequestException
RequestFails ==
    /\ InLoop
    /\ MarkFailed
    /\ Advance
    /\ log' = Append(log, Attempt(NextImage, "request_failed", <<>>))
    /\ UNCHANGED <<Inputs, fs, dirs, pc, mi, image_files, calls, sample_images, report>>

\* lines 63-64, 75-77: the body is no JSON object, so result.get raises
UnexpectedError ==
    /\ InLoop
    /\ \E result \in Bodies : result.type # "dict"
    /\ MarkFailed
    /\ Advance
    /\ log' = Append(log, Attempt(NextImage, "unexpected", <<>>))
    /\ UNCHANGED <<Inputs, fs, dirs, pc, mi, image_files, calls, sample_images, report>>

\* lines 66-68, 75-77: the file is opened, then write() raises UnicodeEncodeError
WriteFails ==
    /\ InLoop
    /\ \E result \in Bodies :
          /\ result.type = "dict"
          /\ ~Encodable(ocr_text(result))
          /\ fs' = OpenForWrite(fs, output_filename(models[mi], NextImage))
    /\ MarkFailed
    /\ Advance
    /\ log' = Append(log, Attempt(NextImage, "write_failed", <<>>))
    /\ UNCHANGED <<Inputs, dirs, pc, mi, image_files, calls, sample_images, report>>

\* lines 60-69: the result is saved
Saved ==
    /\ InLoop
    /\ \E result \in Bodies :
          /\ result.type = "dict"
          /\ Encodable(ocr_text(result))
          /\ fs' = WriteText(OpenForWrite(fs, output_filename(models[mi], NextImage)),
                             output_filename(models[mi], NextImage), ocr_text(result))
          /\ log' = Append(log, Attempt(NextImage, "saved", ocr_text(result)))
    /\ Advance
    /\ KeepFlag
    /\ UNCHANGED <<Inputs, dirs, pc, mi, image_files, calls, sample_images, report>>

\* the for loop's exit condition
LoopFinished == idx > Len(image_files)

\* line 78
RunnerReturn ==
    /\ pc = "loop"
    /\ LoopFinished
    /\ calls' = Append(calls, [model_name |-> models[mi], image_files |-> image_files,
                               log |-> log, result |-> success_all])
    /\ mi' = mi + 1
    /\ pc' = "main"
    /\ UNCHANGED <<Inputs, fs, dirs, image_files, idx, success_all, log, sample_images, report>>

----------------------------------------------------------------------------
(* generate_comparison_report *)

Item(kind, arg) == [item |-> kind, arg |-> arg]

\* variant: the suffix is compared without lower()
ReportFilter_CaseSensitive(img_file) == img_file.is_file /\ Suffix(img_file.name) \in IMAGE_SUFFIXES

\* line 91
ReportFilter(img_file) == img_file.is_file /\ Lower(Suffix(img_file.name)) \in IMAGE_SUFFIXES

\* lines 88-92
RECURSIVE CollectStems(_)
CollectStems(image_dir) ==
    IF image_dir = <<>> THEN <<>>
    ELSE (IF ReportFilter(Head(image_dir)) THEN <<Stem(Head(image_dir).name)>> ELSE <<>>)
         \o CollectStems(Tail(image_dir))

\* line 95
report_sample_images(image_dir, k) == PySlice(CollectStems(image_dir), k)

\* lines 116: ocr_f.read().strip()
extracted_text(content) == Strip(UniversalNewlines(content))

\* variant: the file is read without the exists() test, a missing file reading as empty
ImageEntry_NoExistsCheck(tree, model_name, stem, unreadable) ==
    LET path == ocr_output_file(model_name, stem)
        content == IF path \in DOMAIN tree THEN tree[path] ELSE <<>>
    IN  <<Item("image_header", stem)>> \o
        (IF path \in unreadable
         THEN <<Item("read_error", stem)>>
         ELSE IF extracted_text(content) # <<>>
              THEN <<Item("text", TranslateOnWrite(extracted_text(content))),
                     Item("evaluation", <<>>)>>
              ELSE <<Item("empty", <<>>), Item("evaluation", <<>>)>>)

\* lines 110-129: one image's entry; the files of `unreadable` raise when read
ImageEntry(tree, model_name, stem, unreadable) ==
    LET path == ocr_output_file(model_name, stem)
    IN  <<Item("image_header", stem)>> \o
        (IF path \in DOMAIN tree
         THEN IF path \in unreadable
              THEN <<Item("read_error", stem)>>
              ELSE IF extracted_text(tree[path]) # <<>>
                   THEN <<Item("text", TranslateOnWrite(extracted_text(tree[path]))),
                          Item("evaluation", <<>>)>>
                   ELSE <<Item("empty", <<>>), Item("evaluation", <<>>)>>
         ELSE <<Item("file_not_found", <<>>)>>)

\* lines 109-129
RECURSIVE ImageEntries(_, _, _, _)
ImageEntries(tree, model_name, stems, unreadable) ==
    IF stems = <<>> THEN <<>>
    ELSE ImageEntry(tree, model_name, Head(stems), unreadable)
         \o ImageEntries(tree, model_name, Tail(stems), unreadable)

\* lines 101-130
ModelSection(tree, existing, model_name, stems, unreadable) ==
    <<Item("model_header", model_name)>> \o
    (IF model_output_dir_name(model_name) \notin existing
     THEN <<Item("status_failed", <<>>)>>
     ELSE ImageEntries(tree, model_name, stems, unreadable) \o <<Item("separator", <<>>)>>)

\* variant: a model named again later in the list gets no section of its own
RECURSIVE ModelSections_Distinct(_, _, _, _, _)
ModelSections_Distinct(tree, existing, ms, stems, unreadable) ==
    IF ms = <<>> THEN <<>>
    ELSE (IF Head(ms) \in Range(Tail(ms)) THEN <<>>
          ELSE ModelSection(tree, existing, Head(ms), stems, unreadable))
         \o ModelSections_Distinct(tree, existing, Tail(ms), stems, unreadable)

\* lines 100-130
RECURSIVE ModelSections(_, _, _, _, _)
ModelSections(tree, existing, ms, stems, unreadable) ==
    IF ms = <<>> THEN <<>>
    ELSE ModelSection(tree, existing, Head(ms), stems, unreadable)
         \o ModelSections(tree, existing, Tail(ms), stems, unreadable)

\* lines 83-134
ReportText(tree, existing, ms, stems, unreadable) ==
    <<Item("title", <<>>), Item("intro", <<>>)>> \o
    (IF stems = <<>>
     THEN <<Item("no_samples", <<>>)>>
     ELSE ModelSections(tree, existing, ms, stems, unreadable) \o <<Item("summary", <<>>)>>)

\* line 144
GenerateReport ==
    /\ pc = "main"
    /\ mi > Len(models)
    /\ sample_images' = report_sample_images(listing, num_sample_images)
    /\ \E unreadable \in SUBSET (DOMAIN fs) :
          /\ Cardinality(unreadable) <= MaxReadErrors
          /\ report' = ReportText(fs, dirs, models,
                                  report_sample_images(listing, num_sample_images), unreadable)
    /\ pc' = "done"
    /\ UNCHANGED <<Inputs, fs, dirs, mi, image_files, idx, success_all, log, calls>>

----------------------------------------------------------------------------
(* main *)

Init ==
    /\ models \in ModelLists
    /\ listing \in Listings
    /\ num_sample_images \in SampleCounts
    /\ Len(models) * Len(runner_image_files(listing, num_sample_images)) <= MaxAttempts
    /\ initial_fs \in {EmptyTree, PreviousRun(models)}
    /\ fs = initial_fs
    /\ dirs = {p[1] : p \in DOMAIN initial_fs}
    /\ pc = "main"
    /\ mi = 1
    /\ image_files = <<>>
    /\ idx = 1
    /\ success_all = TRUE
    /\ log = <<>>
    /\ calls = <<>>
    /\ sample_images = <<>>
    /\ report = <<>>

Next ==
    \/ RunnerEnter
    \/ Saved
    \/ ImageReadFails
    \/ RequestFails
    \/ UnexpectedError
    \/ WriteFails
    \/ RunnerReturn
    \/ GenerateReport

Spec == Init /\ [][Next]_vars

\* run_ollama_ocr_integrated's own steps
RunnerStep ==
    \/ RunnerEnter
    \/ Saved
    \/ ImageReadFails
    \/ RequestFails
    \/ UnexpectedError
    \/ WriteFails
    \/ RunnerReturn

\* the runner is sequential code that blocks on nothing but the request, and the
\* request has a timeout: whatever step of it is next is taken
FairSpec == Init /\ [][Next]_vars /\ WF_vars(RunnerStep)

----------------------------------------------------------------------------
(* Reading the report and the call history back *)

Done == pc = "done"

Fresh == initial_fs = EmptyTree

\* number of image files of the directory, and of sampled images
NumImages == Len(all_image_files(listing))
NumSampled == Min(NumImages, num_sample_images)

Count(s, kind) == Cardinality({i \in DOMAIN s : s[i].item = kind})

NthIndex(s, kind, n) ==
    CHOOSE i \in DOMAIN s :
        s[i].item = kind /\ Cardinality({j \in 1..i : s[j].item = kind}) = n

\* the items from the n-th item of the kind up to the next one of the kind
Chunk(s, kind, n) ==
    SubSeq(s, NthIndex(s, kind, n),
           IF n < Count(s, kind) THEN NthIndex(s, kind, n + 1) - 1 ELSE Len(s))

IsClosing(it) == it.item \in {"separator", "summary"}
NotClosing(it) == ~IsClosing(it)

\* the section of the m-th model header
SectionOf(m) == Chunk(report, "model_header", m)

\* the entry of the i-th image header in the m-th section
EntryOf(m, i) == SelectSeq(Chunk(SectionOf(m), "image_header", i), NotClosing)

IsHeader(it) == it.item = "model_header"

\* the models named by the section headers, in report order
HeaderModels ==
    LET hs == SelectSeq(report, IsHeader) IN [i \in DOMAIN hs |-> hs[i].arg]

TextEntry(stem, text) ==
    <<Item("image_header", stem), Item("text", text), Item("evaluation", <<>>)>>
EmptyEntry(stem) ==
    <<Item("image_header", stem), Item("empty", <<>>), Item("evaluation", <<>>)>>
NotFoundEntry(stem) ==
    <<Item("image_header", stem), Item("file_not_found", <<>>)>>
ReadErrorEntry(stem) ==
    <<Item("image_header", stem), Item("read_error", stem)>>

AttemptedImages(call) == [i \in DOMAIN call.log |-> call.log[i].image]

Stems(files) == [i \in DOMAIN files |-> Stem(files[i].name)]

\* the directory the frame claim names: '/' and ':' replaced by '_'
ClaimedDirectory(model_name) ==
    [i \in DOMAIN model_name |-> IF model_name[i] \in {"/", ":"} THEN "_" ELSE model_name[i]]

FilesUnder(tree, dir) == {p \in DOMAIN tree : p[1] = dir}

InferenceFailed(a) == a.outcome \in {"request_failed", "unexpected"}

\* a file's text is empty once trimmed
IsBlank(content) == \A i \in DOMAIN content : IsSpace(content[i])

----------------------------------------------------------------------------
(* The claims *)

\* C1: after main() and the report, starting from an empty output tree: if the
\* inference call for model M and sampled image X failed, the file
\* <M's directory>/<stem of X>.txt does not exist and X's entry in M's section
\* of the report is the 'file not found' marker.
C1_FailedCallReportedNotFound ==
    (Done /\ Fresh) =>
        \A m \in DOMAIN calls : \A i \in DOMAIN calls[m].log :
            InferenceFailed(calls[m].log[i]) =>
                /\ output_filename(models[m], calls[m].log[i].image) \notin DOMAIN fs
                /\ EntryOf(m, i) = NotFoundEntry(Stem(calls[m].log[i].image.name))

\* C2 (as stated): the report contains exactly one section header per model of the
\* list, in list order, whatever the directory holds and whatever the sample count.
C2_OneHeaderPerModelAlways ==
    Done => HeaderModels = models

\* C2 (amended): when the truncated sample list is non-empty the report contains
\* exactly one section header per model of the list, in list order; when it is
\* empty the report contains no section header, only the 'no sample images' line.
C2_OneHeaderPerModelIfSampled ==
    Done => /\ NumSampled > 0 => HeaderModels = models
            /\ NumSampled = 0 => /\ HeaderModels = <<>>
                                 /\ Count(report, "no_samples") = 1

C2_Witness ==
    /\ Done
    /\ NumSampled > 0
    /\ Len(models) >= 2
    /\ models[1] = models[2]
    /\ HeaderModels = models

\* C3: round trip, for a non-empty text and a report that could read the file: the
\* text T that the runner wrote for image X under model M is exactly the text the
\* report embeds between the fences of X's entry in M's section.
C3_RoundTrip ==
    Done =>
        \A m \in DOMAIN calls : \A i \in DOMAIN calls[m].log :
            LET a == calls[m].log[i]
            IN  (/\ a.outcome = "saved"
                 /\ a.text # <<>>
                 /\ Count(report, "read_error") = 0)
                => EntryOf(m, i) = TextEntry(Stem(a.image.name), a.text)

\* C4: the sample list of every runner call and the sample list the report
\* generator computes on its own select the same images in the same order.
C4_SameSampleList ==
    Done => \A m \in DOMAIN calls : Stems(calls[m].image_files) = sample_images

C4_Witness ==
    /\ Done
    /\ calls # <<>>
    /\ Len(sample_images) >= 2
    /\ NumImages > num_sample_images
    /\ Len(listing) > NumImages
    /\ Stems(calls[1].image_files) = sample_images

\* C5: a finished runner call has processed exactly min(n, k) images, namely the
\* first min(n, k) image files in enumeration order.
C5_FirstMinNK ==
    \A m \in DOMAIN calls :
        /\ Len(calls[m].log) = NumSampled
        /\ AttemptedImages(calls[m]) = SubSeq(all_image_files(listing), 1, NumSampled)

\* five images and sample count three: three images processed
C5_Witness ==
    /\ calls # <<>>
    /\ NumImages = 5
    /\ num_sample_images = 3
    /\ Len(calls[1].log) = 3

\* C6: starting from an empty output tree, in every state no model's output
\* directory holds more files than there are sampled input images.
C6_AtMostOneFilePerImage ==
    Fresh => \A m \in DOMAIN models :
                Cardinality(FilesUnder(fs, model_output_dir_name(models[m]))) <= NumSampled

C6_Witness ==
    /\ Fresh
    /\ pc = "loop"
    /\ NumSampled >= 2
    /\ Cardinality(FilesUnder(fs, model_output_dir_name(models[mi]))) = NumSampled

\* C7: a runner call that has entered its loop eventually returns, having
\* attempted every image of its sample list in list order, whatever failed.
C7_NeverAbortsEarly ==
    (pc = "loop")
        ~> (/\ pc = "main"
            /\ calls # <<>>
            /\ AttemptedImages(calls[Len(calls)]) = calls[Len(calls)].image_files)

\* a call that returned after a read failure, a request failure and an
\* unexpected error on earlier images
C7_Witness ==
    /\ calls # <<>>
    /\ Len(calls[1].log) >= 3
    /\ calls[1].log[1].outcome = "read_failed"
    /\ calls[1].log[2].outcome \in {"request_failed", "unexpected", "write_failed"}
    /\ AttemptedImages(calls[1]) = calls[1].image_files

\* C8 (as stated): in every written section there is exactly one entry per sample
\* image, in sample-list order, and it is the fenced text (file exists, text not
\* empty once trimmed), the 'empty' marker (file exists, text empty once trimmed)
\* or the 'file not found' marker (file absent).
C8_ThreeKindsOfEntry ==
    (Done /\ sample_images # <<>>) =>
        \A m \in DOMAIN models :
            /\ Count(SectionOf(m), "image_header") = Len(sample_images)
            /\ \A i \in DOMAIN sample_images :
                  LET stem == sample_images[i]
                      path == ocr_output_file(models[m], stem)
                      e == EntryOf(m, i)
                  IN  IF path \notin DOMAIN fs THEN e = NotFoundEntry(stem)
                      ELSE IF IsBlank(fs[path]) THEN e = EmptyEntry(stem)
                      ELSE /\ Len(e) = 3
                           /\ e[2].item = "text"
                           /\ e = TextEntry(stem, e[2].arg)

\* C8 (amended): as stated, with a fourth kind of entry: when the output file
\* exists and reading it raises, the entry is the 'Error reading OCR output' marker.
C8_FourKindsOfEntry ==
    (Done /\ sample_images # <<>>) =>
        \A m \in DOMAIN models :
            /\ Count(SectionOf(m), "image_header") = Len(sample_images)
            /\ \A i \in DOMAIN sample_images :
                  LET stem == sample_images[i]
                      path == ocr_output_file(models[m], stem)
                      e == EntryOf(m, i)
                  IN  IF path \notin DOMAIN fs THEN e = NotFoundEntry(stem)
                      ELSE \/ e = ReadErrorEntry(stem)
                           \/ IF IsBlank(fs[path]) THEN e = EmptyEntry(stem)
                              ELSE /\ Len(e) = 3
                                   /\ e[2].item = "text"
                                   /\ e = TextEntry(stem, e[2].arg)

\* a section showing a missing file, a file whose read raised, and a file that was read
C8_Witness ==
    /\ Done
    /\ Len(sample_images) >= 3
    /\ Len(models) >= 1
    /\ \E i, j, k \in DOMAIN sample_images :
          /\ EntryOf(1, i) = NotFoundEntry(sample_images[i])
          /\ EntryOf(1, j) = ReadErrorEntry(sample_images[j])
          /\ \/ EntryOf(1, k) = EmptyEntry(sample_images[k])
             \/ Len(EntryOf(1, k)) = 3 /\ EntryOf(1, k)[2].item = "text"

\* C9: a runner call returns True exactly when its sample list is non-empty and
\* every sampled image was read, inferred and saved during the call.
C9_ReturnsTrueIffAllSaved ==
    \A m \in DOMAIN calls :
        calls[m].result =
            (/\ calls[m].image_files # <<>>
             /\ \A i \in DOMAIN calls[m].image_files :
                   /\ i \in DOMAIN calls[m].log
                   /\ calls[m].log[i].image = calls[m].image_files[i]
                   /\ calls[m].log[i].outcome = "saved"
                   /\ output_filename(models[m], calls[m].image_files[i]) \in DOMAIN fs)

\* one call that returned True and one that returned False after a failure
\* followed by a success
C9_Witness ==
    /\ Len(calls) >= 2
    /\ calls[1].result = TRUE
    /\ Len(calls[2].log) >= 2
    /\ calls[2].log[1].outcome # "saved"
    /\ calls[2].log[2].outcome = "saved"
    /\ calls[2].result = FALSE

\* C10: a step of the runner for model M leaves every file outside
\* <base>/<M with '/' and ':' replaced by '_'>/ as it was, creates none there,
\* and leaves the image directory and the report alone; the report generator
\* leaves the whole output tree alone.
C10_Frame ==
    [][ /\ listing' = listing
        /\ (mi <= Len(models)) =>
              /\ report' = report
              /\ \A p \in (DOMAIN fs) \cup (DOMAIN fs') :
                    p[1] # ClaimedDirectory(models[mi]) =>
                        /\ p \in DOMAIN fs
                        /\ p \in DOMAIN fs'
                        /\ fs'[p] = fs[p]
        /\ (mi > Len(models)) => fs' = fs ]_vars

\* the second runner has saved a file in its own directory while the first
\* runner's directory, with ':' in the model's name, holds files
C10_Witness ==
    /\ pc = "loop"
    /\ mi = 2
    /\ \E c \in {":", "/"} : c \in Range(models[1]) \cup Range(models[2])
    /\ model_output_dir_name(models[1]) # model_output_dir_name(models[2])
    /\ FilesUnder(fs, model_output_dir_name(models[1])) # {}
    /\ \E i \in DOMAIN log : log[i].outcome = "saved"

====
